---- MODULE Spec2Model ----
(***************************************************************************)
(* Model of the two circle programs of the repository:                     *)
(*   ex1.c  prompt, read a radius, compute the area, print it, once;       *)
(*   ex3.c  the same inside  while (r != 0) , with the circumference.      *)
(*                                                                         *)
(* Numbers.  The C floating-point values are modelled as decimal           *)
(* fixed-point integers: the integer n stands for n / Scale.  Every        *)
(* multiplication, division and formatting step rounds its exact result    *)
(* to the nearest representable value (ties to even), as the C operators   *)
(* do on their own grid.  Only finite values are modelled.                 *)
(*                                                                         *)
(* Input.  stdin is a sequence of tokens: a number (a radius the           *)
(* conversion %f accepts) or BadToken (text %f rejects; scanf leaves it    *)
(* in the stream).  The empty sequence is end of input.                    *)
(***************************************************************************)
EXTENDS Integers, Sequences, FiniteSets

VARIABLES prog, pc, r, a, c, stdin, stdout, nreads, scanRet, passes

vars == <<prog, pc, r, a, c, stdin, stdout, nreads, scanRet, passes>>

(* ------------------------------ bounds -------------------------------- *)
MaxInput == 2                 \* longest input stream explored
MaxPasses == MaxInput + 2     \* loop passes explored in a run of ex3.c

(* ----------------------------- arithmetic ----------------------------- *)
Scale == 10^5                 \* one unit of the model is 1/Scale
PI == 314159                  \* #define PI 3.14159
CM == 254000                  \* #define CM 2.54

Abs(x) == IF x < 0 THEN -x ELSE x
Sgn(x) == IF x < 0 THEN -1 ELSE 1

\* <<quotient, remainder>> of x*y divided by d, for x, y >= 0 and d > 0,
\* by binary doubling so that no intermediate exceeds the integer range.
\* <<quotient, remainder>> of x*y divided by d, for x, y >= 0 and d > 0,
\* by binary doubling so that no intermediate exceeds the integer range:
\* step[h, n] takes h = <<quotient, remainder>> of x*(n \div 2) to that
\* of x*n.
MulDivQR(x, y, d) ==
  LET step[h \in Nat \X Nat, n \in Nat] ==
        <<2 * h[1] + ((2 * h[2] + (n % 2) * x) \div d),
          (2 * h[2] + (n % 2) * x) % d>>
      qr[n \in Nat] == IF n = 0 THEN <<0, 0>> ELSE step[qr[n \div 2], n]
  IN  qr[y]

\* round to nearest, ties to even
RoundQR(qr, d) ==
  IF 2 * qr[2] > d \/ (2 * qr[2] = d /\ qr[1] % 2 = 1) THEN qr[1] + 1 ELSE qr[1]

\* the C operator  x * y
FMul(x, y) ==
  LET mul[u \in Int, v \in Int] ==
        Sgn(u) * Sgn(v) * RoundQR(MulDivQR(Abs(u), Abs(v), Scale), Scale)
  IN  mul[x, y]

\* the C operator  x / y   (y # 0)
FDiv(x, y) ==
  LET div[u \in Int, v \in Int] ==
        Sgn(u) * Sgn(v) * RoundQR(MulDivQR(Abs(u), Scale, Abs(v)), Abs(v))
  IN  div[x, y]

\* variant: the conversion multiplies by CM instead of dividing
ToInches_Times(x) == FMul(x, CM)

\* r/CM : the radius in inches
ToInches(x) == FDiv(x, CM)

\* variant: the inch radius is not squared
Area_NoSquare(x) == FMul(PI, ToInches(x))

\* a = PI * (r/CM) * (r/CM);
Area(x) == FMul(FMul(PI, ToInches(x)), ToInches(x))

\* variant: '-' typed for '/'
Circumference_Minus(x) == FMul(2 * PI, x - CM)

\* c = 2 * PI * (r/CM);
Circumference(x) == FMul(2 * PI, ToInches(x))

\* conversion %3.2f : the value in hundredths, rounded to nearest
Fmt2(x) ==
  LET fmt[u \in Int] == Sgn(u) * RoundQR(MulDivQR(Abs(u), 100, Scale), Scale)
  IN  fmt[x]

(* ------------------------------- input -------------------------------- *)
Cm(h) == h * (Scale \div 100)       \* h hundredths of a centimetre
Num(v) == <<"num", v>>              \* text that %f converts to the value v
BadToken == <<"bad", 0>>            \* text that %f rejects
InputRadii == {Cm(0), Cm(1), Cm(77), Cm(254), Cm(508), Cm(-254)}
Tokens == {Num(v) : v \in InputRadii} \cup {BadToken}
Garbage == {Cm(0), Cm(333), Cm(-127)}   \* values an uninitialised float may hold
InputStreams == UNION {[1..n -> Tokens] : n \in 0..MaxInput}

PromptLine == <<"prompt">>           \* "Enter radius (in cm):\n"
AreaLine(v) == <<"area", v>>         \* "Circle's area is %3.2f (sq in).\n"
CircLine(v) == <<"circ", v>>         \* "Its circumference is %3.2f (in).\n"

\* variant: a read that cannot assign clears r
Scanf_ZeroOnFail(rv, in) ==
  IF in = <<>> THEN <<0, in, -1>>
  ELSE IF Head(in)[1] = "bad" THEN <<0, in, 0>>
  ELSE <<Head(in)[2], Tail(in), 1>>

\* scanf("%f", &r): the values of <<r, stdin, return value>> after the call
Scanf(rv, in) ==
  IF in = <<>> THEN <<rv, in, -1>>
  ELSE IF Head(in)[1] = "bad" THEN <<rv, in, 0>>
  ELSE <<Head(in)[2], Tail(in), 1>>

(* ------------------------------- state -------------------------------- *)
\* variant: ex3.c enters the loop body before the first test (do-while)
Init_DoWhile ==
  /\ prog \in {"ex1", "ex3"}
  /\ pc = "prompt"
  /\ r \in Garbage
  /\ a \in Garbage
  /\ c \in Garbage
  /\ stdin \in InputStreams
  /\ stdout = <<>>
  /\ nreads = 0
  /\ scanRet = 0
  /\ passes = 0

Init ==
  /\ prog \in {"ex1", "ex3"}
  /\ pc = IF prog = "ex1" THEN "prompt" ELSE "head"
  /\ r \in Garbage
  /\ a \in Garbage
  /\ c \in Garbage
  /\ stdin \in InputStreams
  /\ stdout = <<>>
  /\ nreads = 0
  /\ scanRet = 0
  /\ passes = 0

(* ------------------------------- ex1.c -------------------------------- *)
Ex1Prompt ==
  /\ prog = "ex1" /\ pc = "prompt"
  /\ stdout' = Append(stdout, PromptLine)
  /\ pc' = "scan"
  /\ UNCHANGED <<prog, r, a, c, stdin, nreads, scanRet, passes>>

\* variant: ex1.c prompts again when the read assigned nothing
Ex1Scan_Retry ==
  /\ prog = "ex1" /\ pc = "scan"
  /\ LET s == Scanf(r, stdin) IN
       /\ r' = s[1]
       /\ stdin' = s[2]
       /\ scanRet' = s[3]
       /\ pc' = IF s[3] = 1 \/ nreads >= MaxPasses THEN "area" ELSE "prompt"
  /\ nreads' = nreads + 1
  /\ UNCHANGED <<prog, a, c, stdout, passes>>

Ex1Scan ==
  /\ prog = "ex1" /\ pc = "scan"
  /\ LET s == Scanf(r, stdin) IN
       /\ r' = s[1]
       /\ stdin' = s[2]
       /\ scanRet' = s[3]
  /\ nreads' = nreads + 1
  /\ pc' = "area"
  /\ UNCHANGED <<prog, a, c, stdout, passes>>

Ex1Area ==
  /\ prog = "ex1" /\ pc = "area"
  /\ a' = Area(r)
  /\ pc' = "printA"
  /\ UNCHANGED <<prog, r, c, stdin, stdout, nreads, scanRet, passes>>

Ex1PrintArea ==
  /\ prog = "ex1" /\ pc = "printA"
  /\ stdout' = Append(stdout, AreaLine(Fmt2(a)))
  /\ pc' = "done"
  /\ UNCHANGED <<prog, r, a, c, stdin, nreads, scanRet, passes>>

(* ------------------------------- ex3.c -------------------------------- *)
\* variant: the loop test is r > 0
Ex3LoopHead_Positive ==
  /\ prog = "ex3" /\ pc = "head"
  /\ IF r > 0
       THEN /\ passes < MaxPasses
            /\ passes' = passes + 1
            /\ pc' = "prompt"
       ELSE /\ passes' = passes
            /\ pc' = "done"
  /\ UNCHANGED <<prog, r, a, c, stdin, stdout, nreads, scanRet>>

\* while (r != 0)
Ex3LoopHead ==
  /\ prog = "ex3" /\ pc = "head"
  /\ IF r # 0
       THEN /\ passes < MaxPasses
            /\ passes' = passes + 1
            /\ pc' = "prompt"
       ELSE /\ passes' = passes
            /\ pc' = "done"
  /\ UNCHANGED <<prog, r, a, c, stdin, stdout, nreads, scanRet>>

Ex3Prompt ==
  /\ prog = "ex3" /\ pc = "prompt"
  /\ stdout' = Append(stdout, PromptLine)
  /\ pc' = "scan"
  /\ UNCHANGED <<prog, r, a, c, stdin, nreads, scanRet, passes>>

\* variant: a 0 read ends the pass at once (sentinel loop)
Ex3Scan_BreakOnZero ==
  /\ prog = "ex3" /\ pc = "scan"
  /\ LET s == Scanf(r, stdin) IN
       /\ r' = s[1]
       /\ stdin' = s[2]
       /\ scanRet' = s[3]
       /\ pc' = IF s[1] = 0 THEN "head" ELSE "area"
  /\ nreads' = nreads + 1
  /\ UNCHANGED <<prog, a, c, stdout, passes>>

Ex3Scan ==
  /\ prog = "ex3" /\ pc = "scan"
  /\ LET s == Scanf(r, stdin) IN
       /\ r' = s[1]
       /\ stdin' = s[2]
       /\ scanRet' = s[3]
  /\ nreads' = nreads + 1
  /\ pc' = "area"
  /\ UNCHANGED <<prog, a, c, stdout, passes>>

Ex3Area ==
  /\ prog = "ex3" /\ pc = "area"
  /\ a' = Area(r)
  /\ pc' = "circ"
  /\ UNCHANGED <<prog, r, c, stdin, stdout, nreads, scanRet, passes>>

Ex3Circ ==
  /\ prog = "ex3" /\ pc = "circ"
  /\ c' = Circumference(r)
  /\ pc' = "printA"
  /\ UNCHANGED <<prog, r, a, stdin, stdout, nreads, scanRet, passes>>

\* variant: the area is written with the circumference format
Ex3PrintArea_WrongLine ==
  /\ prog = "ex3" /\ pc = "printA"
  /\ stdout' = Append(stdout, CircLine(Fmt2(a)))
  /\ pc' = "printC"
  /\ UNCHANGED <<prog, r, a, c, stdin, nreads, scanRet, passes>>

Ex3PrintArea ==
  /\ prog = "ex3" /\ pc = "printA"
  /\ stdout' = Append(stdout, AreaLine(Fmt2(a)))
  /\ pc' = "printC"
  /\ UNCHANGED <<prog, r, a, c, stdin, nreads, scanRet, passes>>

Ex3PrintCirc ==
  /\ prog = "ex3" /\ pc = "printC"
  /\ stdout' = Append(stdout, CircLine(Fmt2(c)))
  /\ pc' = "head"
  /\ UNCHANGED <<prog, r, a, c, stdin, nreads, scanRet, passes>>

Next ==
  \/ Ex1Prompt \/ Ex1Scan \/ Ex1Area \/ Ex1PrintArea
  \/ Ex3LoopHead \/ Ex3Prompt \/ Ex3Scan \/ Ex3Area \/ Ex3Circ
  \/ Ex3PrintArea \/ Ex3PrintCirc

Spec == Init /\ [][Next]_vars

\* a running process executes its next statement
FairSpec == Spec /\ WF_vars(Next)

(* ----------------------- helpers of the properties --------------------- *)
Last(s) == s[Len(s)]
Count(kind) == Cardinality({i \in 1..Len(stdout) : stdout[i][1] = kind})
Hundredths(x) == x \div (Scale \div 100)    \* x in hundredths, for x on that grid

\* the area of a circle of radius x cm in hundredths of a square inch:
\* 100 * 3.14159 * (x / 2.54)^2 computed exactly and rounded once
RefArea(x) ==
  LET h == Abs(Hundredths(x))
      d == Hundredths(CM) * Hundredths(CM) * (Scale \div 100)
  IN  RoundQR(MulDivQR(PI, h * h, d), d)

\* its circumference in hundredths of an inch:
\* 100 * 2 * 3.14159 * (x / 2.54) computed exactly and rounded once
RefCirc(x) ==
  LET h == Abs(Hundredths(x))
      d == Hundredths(CM) * (Scale \div 100)
  IN  Sgn(x) * RoundQR(MulDivQR(2 * PI, h, d), d)

\* inches back to centimetres: r_in * 2.54
ToCm(x) == FMul(x, CM)

\* the area line of the current pass is the last line written
AreaJustPrinted == \/ prog = "ex3" /\ pc = "printC"
                   \/ prog = "ex1" /\ pc = "done"
\* a pass of ex3.c has just ended: its two result lines end the output
PassJustEnded == prog = "ex3" /\ pc \in {"head", "done"} /\ passes > 0

\* the next read cannot assign: end of input, or a token %f rejects
Stuck == stdin = <<>> \/ Head(stdin) = BadToken

\* a 0 can be read: a 0 token preceded by numbers only
ZeroReadable ==
  \E i \in 1..Len(stdin) :
    /\ stdin[i] = Num(0)
    /\ \A j \in 1..(i - 1) : stdin[j][1] = "num"

(* ------------------------------ properties ----------------------------- *)

\* C1: in ex3.c, once a 0 has been read successfully the program ends
\* without writing a result line for it: the prompt of that pass stays the
\* last line of the output.
C1_ZeroPrintsNoResult ==
  (/\ prog = "ex3"
   /\ pc \in {"area", "circ", "printA", "printC", "head", "done"}
   /\ scanRet = 1 /\ r = 0)
  => Last(stdout) = PromptLine

\* C2: ex3.c repeats the pass while the radius is non-zero: at the loop head
\* a non-zero radius starts another pass and a zero radius ends the program;
\* the program has ended only with a zero radius, which after any read is a
\* 0 read successfully; and whenever a 0 can be read the program ends.
C2_LoopWhileNonZero ==
  /\ [][(prog = "ex3" /\ pc = "head")
          => (IF r # 0 THEN pc' = "prompt" /\ passes' = passes + 1
                       ELSE pc' = "done")]_vars
  /\ [][(prog = "ex3" /\ pc' = "done") => (pc = "head" /\ r = 0)]_vars
  /\ []((prog = "ex3" /\ pc = "done")
          => (r = 0 /\ (nreads = 0 \/ scanRet = 1)))
  /\ ((prog = "ex3" /\ ZeroReadable) ~> (pc = "done"))

C2_Witness ==
  prog = "ex3" /\ pc = "done" /\ passes >= 2 /\ scanRet = 1 /\ r = 0

\* C3: ex1.c prompts, reads, computes and prints exactly once and then ends,
\* whatever the input is; it never reads a second time.
C3_SinglePass ==
  /\ [](prog = "ex1"
          => (nreads <= 1 /\ Count("prompt") <= 1 /\ Count("area") <= 1
              /\ passes = 0))
  /\ []((prog = "ex1" /\ pc = "done")
          => (nreads = 1 /\ stdout = <<PromptLine, AreaLine(Fmt2(Area(r)))>>))
  /\ [][(prog = "ex1" /\ pc = "done") => FALSE]_vars
  /\ ((prog = "ex1") ~> (pc = "done"))

C3_Witness ==
  prog = "ex1" /\ pc = "done" /\ nreads = 1 /\ scanRet # 1 /\ Len(stdout) = 2

\* C4: ex3.c tests the radius before anything is read: the first pass starts
\* only if the initial value of r is non-zero, and with an initial 0 the
\* program ends with no prompt, no read and no output.
C4_TestBeforeRead ==
  /\ [][(prog = "ex3" /\ pc = "head" /\ passes = 0)
          => /\ nreads = 0 /\ stdout = <<>>
             /\ (pc' = "prompt" => r # 0)
             /\ (r = 0 => pc' = "done")]_vars
  /\ []((prog = "ex3" /\ passes = 0) => (nreads = 0 /\ stdout = <<>>))

C4_Witness ==
  prog = "ex3" /\ pc = "done" /\ passes = 0 /\ stdin # <<>> /\ stdout = <<>>

\* C5: the printed area is 3.14159 * (r/2.54)^2 and the printed
\* circumference is 2 * 3.14159 * (r/2.54), within 0.01, for the radius of
\* the same pass; 2.54 gives 3.14, 5.08 gives 12.57 and 12.57.
C5_ReportedValues ==
  /\ AreaJustPrinted
       => /\ Last(stdout)[1] = "area"
          /\ Abs(Last(stdout)[2] - RefArea(r)) <= 1
          /\ (r = Cm(254) => Last(stdout)[2] = 314)
          /\ (r = Cm(508) => Last(stdout)[2] = 1257)
  /\ PassJustEnded
       => /\ stdout[Len(stdout) - 1][1] = "area"
          /\ Abs(stdout[Len(stdout) - 1][2] - RefArea(r)) <= 1
          /\ Last(stdout)[1] = "circ"
          /\ Abs(Last(stdout)[2] - RefCirc(r)) <= 1
          /\ (r = Cm(508) => Last(stdout)[2] = 1257)

C5_Witness ==
  /\ PassJustEnded /\ scanRet = 1 /\ r = Cm(508)
  /\ stdout[Len(stdout) - 1] = AreaLine(1257)
  /\ Last(stdout) = CircLine(1257)

\* C6: a printed area or circumference computed from a radius >= 0 is >= 0.
C6_NonNegative ==
  /\ (AreaJustPrinted /\ r >= 0) => Last(stdout)[2] >= 0
  /\ (PassJustEnded /\ r >= 0)
       => (stdout[Len(stdout) - 1][2] >= 0 /\ Last(stdout)[2] >= 0)

C6_Witness ==
  PassJustEnded /\ scanRet = 1 /\ r = Cm(1) /\ Last(stdout) = CircLine(2)

\* C7: in every pass the prompt is written before the read and the area
\* line after it; ex3.c writes the circumference line right after the area
\* line; ex1.c never writes a circumference line.
C7_OutputOrder ==
  /\ \A i \in 1..Len(stdout) :
       stdout[i][1] = IF prog = "ex1"
                        THEN (IF i = 1 THEN "prompt" ELSE "area")
                        ELSE (CASE i % 3 = 1 -> "prompt"
                                [] i % 3 = 2 -> "area"
                                [] OTHER     -> "circ")
  /\ Count("prompt") = nreads + (IF pc = "scan" THEN 1 ELSE 0)
  /\ pc = "scan" => Last(stdout) = PromptLine
  /\ Count("area") <= nreads
  /\ prog = "ex1" => (Count("circ") = 0 /\ Len(stdout) <= 2)

C7_Witness ==
  /\ prog = "ex3" /\ pc = "head" /\ Len(stdout) >= 6
  /\ stdout[4] = PromptLine /\ stdout[5][1] = "area" /\ stdout[6][1] = "circ"

\* C8: centimetres to inches and back gives the radius again, within one
\* unit of the last place.
C8_RoundTrip == Abs(ToCm(ToInches(r)) - r) <= 1

C8_Witness ==
  /\ pc = "circ" /\ scanRet = 1 /\ r = Cm(1)
  /\ ToCm(ToInches(r)) # r

\* C9: in ex3.c a read that cannot assign leaves r as it was, the pass still
\* prints the area and circumference of that r, and with r non-zero the
\* program never ends: it goes on through every pass explored.
C9_FailedReadKeepsRadius ==
  /\ [][(prog = "ex3" /\ pc = "scan" /\ Stuck)
          => (r' = r /\ stdin' = stdin /\ scanRet' # 1 /\ pc' = "area")]_vars
  /\ []((PassJustEnded /\ scanRet # 1)
          => /\ r # 0
             /\ stdout[Len(stdout) - 1] = AreaLine(Fmt2(Area(r)))
             /\ Last(stdout) = CircLine(Fmt2(Circumference(r))))
  /\ [][(prog = "ex3" /\ Stuck /\ r # 0)
          => (pc' # "done" /\ r' = r /\ stdin' = stdin)]_vars
  /\ ((prog = "ex3" /\ Stuck /\ r # 0)
        ~> (pc = "head" /\ passes = MaxPasses
            /\ Len(stdout) = 3 * MaxPasses))

C9_Witness ==
  /\ prog = "ex3" /\ pc = "head" /\ passes = MaxPasses /\ scanRet = 0
  /\ r # 0 /\ nreads = MaxPasses /\ stdout[Len(stdout) - 2] = PromptLine

\* C10: in ex3.c, at the loop head and at the end, as many prompts, reads,
\* area lines and circumference lines have happened as passes; the pass
\* that read the final 0 wrote its two result lines.
C10_CountsEqual ==
  /\ (prog = "ex3" /\ pc \in {"head", "done"})
       => /\ Count("prompt") = passes
          /\ nreads = passes
          /\ Count("area") = passes
          /\ Count("circ") = passes
  /\ (prog = "ex3" /\ pc = "done" /\ scanRet = 1)
       => /\ stdout[Len(stdout) - 1] = AreaLine(0)
          /\ Last(stdout) = CircLine(0)
          /\ Len(stdout) = 3 * nreads

C10_Witness ==
  /\ prog = "ex3" /\ pc = "done" /\ scanRet = 1 /\ passes = 2
  /\ Count("area") = 2 /\ Count("circ") = 2
====
